---- MODULE Spec2Model ----
(***************************************************************************)
(* Model of x/staking/keeper/keeper.go: the Keeper.Delegate override and   *)
(* the two pool-transfer helpers.  The store (validators, delegations) and *)
(* the bank ledger (account and pool balances) are the state; one Delegate *)
(* call is one step.  The collaborators Delegate calls (bank keeper, share *)
(* minting, record store, hooks, address codecs) are modelled by their     *)
(* contracts; a collaborator's error is an input of the call.              *)
(***************************************************************************)
EXTENDS Integers, Sequences, FiniteSets, TLC

VARIABLES
    balances,     \* the bank ledger: account and pool balances
    validators,   \* the store's validator records
    delegations,  \* the store's delegation records, by (delegator, validator)
    last,         \* the call that has returned and not yet been taken
    history       \* what the successful delegations so far add up to

vars == <<balances, validators, delegations, last, history>>

(* ------------------------------ bounds -------------------------------- *)

\* Decimal digits kept by the share decimal (math.LegacyDec keeps 18).
DecDigits == 1
\* Largest bondAmt of a call.
MaxAmt == 2
\* Balance every delegator account starts with.
MaxBal == 2
\* Cap on the validators' token totals together (pool-paid delegations
\* are otherwise unbounded).
MaxTokens == 5
\* Tokens each pool holds beyond its validators' tokens at the start.
PoolSlack == 1

(* ----------------------------- constants ------------------------------ *)

Delegators == {"d1", "d2"}
Validators == {"v1", "v2"}

BondedPoolName == "bonded_tokens_pool"
NotBondedPoolName == "not_bonded_tokens_pool"
Accounts == Delegators \cup {BondedPoolName, NotBondedPoolName}

\* types.BondStatus
Unspecified == "Unspecified"
Unbonded == "Unbonded"
Unbonding == "Unbonding"
Bonded == "Bonded"
BondStatus == {Unspecified, Unbonded, Unbonding, Bonded}

\* One share, as the decimal's integer representation.
OneDec == 10 ^ DecDigits
\* math.LegacyZeroDec()
LegacyZeroDec == 0
\* math.LegacyDec{}: the decimal without a value, as the error returns of
\* lines 71, 105, 110, 123, 129 give it.
NilDec == -1

\* The collaborator whose error a call meets first, if it reaches it.
Failures == {"none", "decode", "lookup", "encode", "prehook", "denom",
             "ledger", "mint", "persist", "posthook"}

ErrDelegatorShareExRateInvalid == "ErrDelegatorShareExRateInvalid"
Idle == "idle"
Running == "running"
Ok == "ok"
Panic == "panic"

(* ------------------------ collaborators' contracts -------------------- *)

\* Validator.InvalidExRate: tokens zero while shares positive.
InvalidExRate(validator) == validator.tokens = 0 /\ validator.shares > 0

\* Validator.IsBonded / IsUnbonding / IsUnbonded
IsBonded(validator) == validator.status = Bonded
IsUnbonding(validator) == validator.status = Unbonding
IsUnbonded(validator) == validator.status = Unbonded

\* Validator.SharesFromTokens: shares * amt / tokens, truncated.
SharesFromTokens(validator, amt) == (validator.shares * amt) \div validator.tokens

\* Validator.AddTokensFromDel: the shares issued for amt; the first
\* delegation to a validator sets the exchange rate to one.
IssuedShares(validator, amt) ==
    IF validator.shares = 0 THEN amt * OneDec ELSE SharesFromTokens(validator, amt)

\* The validator record AddValidatorTokensAndShares stores.
AddTokensFromDel(validator, amt) ==
    [validator EXCEPT !.tokens = @ + amt,
                      !.shares = @ + IssuedShares(validator, amt)]

\* The share minting primitive refuses a zero-token validator with shares.
MintRejects(validator) == validator.tokens = 0 /\ validator.shares # 0

\* Ledger Port: all-or-nothing transfer of amt from one balance to another.
CanSend(bal, from, amt) == bal[from] >= amt
Send(bal, from, to, amt) ==
    [bal EXCEPT ![from] = @ - amt, ![to] = @ + amt]

(* --------------------------- Delegate's run --------------------------- *)

\* The run in progress: the store and ledger as written so far, the
\* in-memory delegation, the events observed, and how the call ended.
Start(c) ==
    [bal |-> balances, vals |-> validators, dels |-> delegations,
     delegation |-> NilDec, events |-> <<>>, ledger |-> <<>>,
     res |-> Running, shares |-> NilDec]

Emit(s, e) == [s EXCEPT !.events = Append(@, e)]
Return(s, err, shares) == [s EXCEPT !.res = err, !.shares = shares]

Found(s, c) == <<c.del, c.val>> \in DOMAIN s.dels

\* The record written under the validator alone: every delegator's record
\* of that validator takes the shares.
SetDelegationByValidator(s, c, shares) ==
    [s EXCEPT !.dels = [p \in DOMAIN s.dels \cup {<<c.del, c.val>>} |->
                           IF p[2] = c.val THEN shares ELSE s.dels[p]]]

\* The store's delegation records replaced by the one written.
SetDelegationAlone(s, c, shares) ==
    [s EXCEPT !.dels = (<<c.del, c.val>> :> shares)]

\* Keeper.GetDelegation / SetDelegation of the record store.
GetDelegation(s, c) == s.dels[<<c.del, c.val>>]
SetDelegation(s, c, shares) ==
    [s EXCEPT !.dels = [p \in DOMAIN s.dels \cup {<<c.del, c.val>>} |->
                           IF p = <<c.del, c.val>> THEN shares ELSE s.dels[p]]]

\* bk.DelegateCoinsFromAccountToModule / bk.SendCoinsFromModuleToModule:
\* the call is logged; it moves the coins or fails and moves nothing.
LedgerCall(s, name, from, to, amt, fail) ==
    LET ok == fail # "ledger" /\ CanSend(s.bal, from, amt)
        t == [Emit(s, name) EXCEPT
                 !.ledger = Append(@, [from |-> from, to |-> to,
                                       amt |-> amt, ok |-> ok])]
    IN IF ok THEN [t EXCEPT !.bal = Send(s.bal, from, to, amt)]
       ELSE IF fail = "ledger" THEN [t EXCEPT !.res = "ErrTransfer"]
       ELSE [t EXCEPT !.res = "ErrInsufficientFunds"]

\* The helper sending the other way (the body of its twin).
bondedTokensToNotBondedReversed(s, tokens, fail) ==
    IF fail = "denom" THEN [s EXCEPT !.res = "ErrBondDenom"]
    ELSE LedgerCall(s, "SendCoinsFromModuleToModule",
                    NotBondedPoolName, BondedPoolName, tokens, fail)

\* bondedTokensToNotBonded: bonded pool to not-bonded pool.
bondedTokensToNotBonded(s, tokens, fail) ==
    IF fail = "denom" THEN [s EXCEPT !.res = "ErrBondDenom"]
    ELSE LedgerCall(s, "SendCoinsFromModuleToModule",
                    BondedPoolName, NotBondedPoolName, tokens, fail)

\* The transfer made a second time after the first.
notBondedTokensToBondedTwice(s, tokens, fail) ==
    IF fail = "denom" THEN [s EXCEPT !.res = "ErrBondDenom"]
    ELSE LET t == LedgerCall(s, "SendCoinsFromModuleToModule",
                             NotBondedPoolName, BondedPoolName, tokens, fail)
         IN IF t.res # Running THEN t
            ELSE LedgerCall(t, "SendCoinsFromModuleToModule",
                            NotBondedPoolName, BondedPoolName, tokens, fail)

\* notBondedTokensToBonded: not-bonded pool to bonded pool.
notBondedTokensToBonded(s, tokens, fail) ==
    IF fail = "denom" THEN [s EXCEPT !.res = "ErrBondDenom"]
    ELSE LedgerCall(s, "SendCoinsFromModuleToModule",
                    NotBondedPoolName, BondedPoolName, tokens, fail)

\* The gate closed on every validator without tokens, shares or none.
ExRateGateNoTokens(s, c) ==
    IF c.validator.tokens = 0
    THEN Return(s, ErrDelegatorShareExRateInvalid, LegacyZeroDec)
    ELSE s

\* The gate left out: the call goes on whatever the exchange rate.
ExRateGateOpen(s, c) == s

\* Step 1, the exchange-rate gate.
ExRateGate(s, c) ==
    IF InvalidExRate(c.validator)
    THEN Return(s, ErrDelegatorShareExRateInvalid, LegacyZeroDec)
    ELSE s

\* Step 2, the operator address is decoded.
ResolveOperator(s, c) ==
    IF s.res # Running THEN s
    ELSE IF c.fail = "decode" THEN Return(s, "ErrAddressDecode", LegacyZeroDec)
    ELSE s

\* The new zero-share record stored as soon as it is made, before its
\* hook is called.
LoadOrCreateStoresNew(s, c) ==
    IF s.res # Running THEN s
    ELSE LET s1 == Emit(s, "GetDelegation") IN
         IF c.fail = "lookup" THEN Return(s1, "ErrLookup", LegacyZeroDec)
         ELSE IF Found(s, c)
         THEN LET s2 == [Emit(s1, "BeforeDelegationSharesModified")
                            EXCEPT !.delegation = GetDelegation(s, c)]
              IN IF c.fail = "prehook" THEN Return(s2, "ErrPreHook", LegacyZeroDec)
                 ELSE s2
         ELSE IF c.fail = "encode" THEN Return(s1, "ErrAddressEncode", NilDec)
         ELSE LET s2 == [SetDelegation(Emit(s1, "BeforeDelegationCreated"),
                                       c, LegacyZeroDec)
                            EXCEPT !.delegation = LegacyZeroDec]
              IN IF c.fail = "prehook" THEN Return(s2, "ErrPreHook", LegacyZeroDec)
                 ELSE s2

\* Every lookup error taken for "no delegation": the call goes on to make
\* a new record.
LoadOrCreateAnyErrorCreates(s, c) ==
    IF s.res # Running THEN s
    ELSE LET s1 == Emit(s, "GetDelegation") IN
         IF Found(s, c) /\ c.fail # "lookup"
         THEN LET s2 == [Emit(s1, "BeforeDelegationSharesModified")
                            EXCEPT !.delegation = GetDelegation(s, c)]
              IN IF c.fail = "prehook" THEN Return(s2, "ErrPreHook", LegacyZeroDec)
                 ELSE s2
         ELSE IF c.fail = "encode" THEN Return(s1, "ErrAddressEncode", NilDec)
         ELSE LET s2 == [Emit(s1, "BeforeDelegationCreated")
                            EXCEPT !.delegation = LegacyZeroDec]
              IN IF c.fail = "prehook" THEN Return(s2, "ErrPreHook", LegacyZeroDec)
                 ELSE s2

\* Step 3, get or create the delegation and call the matching hook.
LoadOrCreate(s, c) ==
    IF s.res # Running THEN s
    ELSE LET s1 == Emit(s, "GetDelegation") IN
         IF c.fail = "lookup" THEN Return(s1, "ErrLookup", LegacyZeroDec)
         ELSE IF Found(s, c)
         THEN LET s2 == [Emit(s1, "BeforeDelegationSharesModified")
                            EXCEPT !.delegation = GetDelegation(s, c)]
              IN IF c.fail = "prehook" THEN Return(s2, "ErrPreHook", LegacyZeroDec)
                 ELSE s2
         ELSE IF c.fail = "encode" THEN Return(s1, "ErrAddressEncode", NilDec)
         ELSE LET s2 == [Emit(s1, "BeforeDelegationCreated")
                            EXCEPT !.delegation = LegacyZeroDec]
              IN IF c.fail = "prehook" THEN Return(s2, "ErrPreHook", LegacyZeroDec)
                 ELSE s2

\* The two pools taken for each other.
SendNameSwapped(validator) ==
    IF IsBonded(validator) THEN NotBondedPoolName
    ELSE IF IsUnbonding(validator) \/ IsUnbonded(validator) THEN BondedPoolName
    ELSE Panic

\* The pool a direct delegation is sent to, by the validator's status.
SendName(validator) ==
    IF IsBonded(validator) THEN BondedPoolName
    ELSE IF IsUnbonding(validator) \/ IsUnbonded(validator) THEN NotBondedPoolName
    ELSE Panic

\* The coins sent to the not-bonded pool whatever the validator's status.
SubtractAccountToNotBonded(s, c) ==
    IF c.src = Bonded THEN Return(s, Panic, NilDec)
    ELSE IF SendName(c.validator) = Panic THEN Return(s, Panic, NilDec)
    ELSE IF c.fail = "denom" THEN Return(s, "ErrBondDenom", NilDec)
    ELSE LET t == LedgerCall(s, "DelegateCoinsFromAccountToModule",
                             c.del, NotBondedPoolName, c.amt, c.fail)
         IN IF t.res # Running THEN Return(t, t.res, NilDec) ELSE t

\* The coins sent before the bonding denomination is looked up, so that a
\* failed lookup returns with the coins already moved.
SubtractAccountTransferFirst(s, c) ==
    IF c.src = Bonded THEN Return(s, Panic, NilDec)
    ELSE IF SendName(c.validator) = Panic THEN Return(s, Panic, NilDec)
    ELSE LET t == LedgerCall(s, "DelegateCoinsFromAccountToModule",
                             c.del, SendName(c.validator), c.amt, c.fail)
         IN IF t.res # Running THEN Return(t, t.res, NilDec)
            ELSE IF c.fail = "denom" THEN Return(t, "ErrBondDenom", NilDec)
            ELSE t

\* The check of the token source left out: a Bonded source is sent from
\* the account like any other.
SubtractAccountBondedAllowed(s, c) ==
    IF SendName(c.validator) = Panic THEN Return(s, Panic, NilDec)
    ELSE IF c.fail = "denom" THEN Return(s, "ErrBondDenom", NilDec)
    ELSE LET t == LedgerCall(s, "DelegateCoinsFromAccountToModule",
                             c.del, SendName(c.validator), c.amt, c.fail)
         IN IF t.res # Running THEN Return(t, t.res, NilDec) ELSE t

\* Step 4 with subtractAccount: the coins leave the delegator's account.
SubtractAccount(s, c) ==
    IF c.src = Bonded THEN Return(s, Panic, NilDec)
    ELSE IF SendName(c.validator) = Panic THEN Return(s, Panic, NilDec)
    ELSE IF c.fail = "denom" THEN Return(s, "ErrBondDenom", NilDec)
    ELSE LET t == LedgerCall(s, "DelegateCoinsFromAccountToModule",
                             c.del, SendName(c.validator), c.amt, c.fail)
         IN IF t.res # Running THEN Return(t, t.res, NilDec) ELSE t

\* The validator's status read the wrong way round: the pools exchange
\* coins when source and status agree, and none when they differ.
PoolTransferInverted(s, c) ==
    IF c.src = Bonded /\ ~IsBonded(c.validator) THEN s
    ELSE IF (c.src = Unbonded \/ c.src = Unbonding) /\ IsBonded(c.validator) THEN s
    ELSE IF (c.src = Unbonded \/ c.src = Unbonding) /\ ~IsBonded(c.validator)
    THEN LET t == notBondedTokensToBonded(s, c.amt, c.fail)
         IN IF t.res # Running THEN Return(t, t.res, NilDec) ELSE t
    ELSE IF c.src = Bonded /\ IsBonded(c.validator)
    THEN LET t == bondedTokensToNotBonded(s, c.amt, c.fail)
         IN IF t.res # Running THEN Return(t, t.res, NilDec) ELSE t
    ELSE Return(s, Panic, NilDec)

\* The helpers' error not looked at: the call goes on to mint whether the
\* coins moved or not.
PoolTransferIgnoresError(s, c) ==
    IF c.src = Bonded /\ IsBonded(c.validator) THEN s
    ELSE IF (c.src = Unbonded \/ c.src = Unbonding) /\ ~IsBonded(c.validator) THEN s
    ELSE IF (c.src = Unbonded \/ c.src = Unbonding) /\ IsBonded(c.validator)
    THEN [notBondedTokensToBonded(s, c.amt, c.fail) EXCEPT !.res = Running]
    ELSE IF c.src = Bonded /\ ~IsBonded(c.validator)
    THEN [bondedTokensToNotBonded(s, c.amt, c.fail) EXCEPT !.res = Running]
    ELSE Return(s, Panic, NilDec)

\* The switch without its default: a token source that is none of the
\* three moves nothing and the call goes on.
PoolTransferNoDefault(s, c) ==
    IF c.src = Bonded /\ IsBonded(c.validator) THEN s
    ELSE IF (c.src = Unbonded \/ c.src = Unbonding) /\ ~IsBonded(c.validator) THEN s
    ELSE IF (c.src = Unbonded \/ c.src = Unbonding) /\ IsBonded(c.validator)
    THEN LET t == notBondedTokensToBonded(s, c.amt, c.fail)
         IN IF t.res # Running THEN Return(t, t.res, NilDec) ELSE t
    ELSE IF c.src = Bonded /\ ~IsBonded(c.validator)
    THEN LET t == bondedTokensToNotBonded(s, c.amt, c.fail)
         IN IF t.res # Running THEN Return(t, t.res, NilDec) ELSE t
    ELSE s

\* Step 4 without subtractAccount: the coins move between the pools, if
\* the token source and the validator's status differ.
PoolTransfer(s, c) ==
    IF c.src = Bonded /\ IsBonded(c.validator) THEN s
    ELSE IF (c.src = Unbonded \/ c.src = Unbonding) /\ ~IsBonded(c.validator) THEN s
    ELSE IF (c.src = Unbonded \/ c.src = Unbonding) /\ IsBonded(c.validator)
    THEN LET t == notBondedTokensToBonded(s, c.amt, c.fail)
         IN IF t.res # Running THEN Return(t, t.res, NilDec) ELSE t
    ELSE IF c.src = Bonded /\ ~IsBonded(c.validator)
    THEN LET t == bondedTokensToNotBonded(s, c.amt, c.fail)
         IN IF t.res # Running THEN Return(t, t.res, NilDec) ELSE t
    ELSE Return(s, Panic, NilDec)

MoveLiquidity(s, c) ==
    IF s.res # Running THEN s
    ELSE IF c.sub THEN SubtractAccount(s, c)
    ELSE PoolTransfer(s, c)

\* Keeper.AddValidatorTokensAndShares: the validator record is stored with
\* the tokens and the issued shares added; newShares is what was issued.
AddValidatorTokensAndShares(s, c, fail) ==
    LET t == Emit(s, "AddValidatorTokensAndShares") IN
    IF fail = "mint" \/ MintRejects(c.validator)
    THEN [t EXCEPT !.res = "ErrMint"]
    ELSE [t EXCEPT !.vals[c.val] = AddTokensFromDel(c.validator, c.amt),
                   !.shares = IssuedShares(c.validator, c.amt)]

\* A failed minting made good: the coins moved in step 4 are put back.
MintSharesCompensating(s, c) ==
    IF s.res # Running THEN s
    ELSE LET t == AddValidatorTokensAndShares(s, c, c.fail)
         IN IF t.res # Running THEN [t EXCEPT !.bal = balances] ELSE t

\* Step 5, the shares are minted.
MintShares(s, c) ==
    IF s.res # Running THEN s
    ELSE AddValidatorTokensAndShares(s, c, c.fail)

\* The delegation's shares set to the new shares, not increased by them.
UpdateDelegationReplace(s, c) ==
    IF s.res # Running THEN s
    ELSE LET t == [Emit(s, "SetDelegation") EXCEPT !.delegation = s.shares]
         IN IF c.fail = "persist" THEN [t EXCEPT !.res = "ErrPersist"]
            ELSE SetDelegation(t, c, t.delegation)

\* The new shares added to the delegation twice over.
UpdateDelegationTwice(s, c) ==
    IF s.res # Running THEN s
    ELSE LET t == [Emit(s, "SetDelegation")
                      EXCEPT !.delegation = @ + s.shares + s.shares]
         IN IF c.fail = "persist" THEN [t EXCEPT !.res = "ErrPersist"]
            ELSE SetDelegation(t, c, t.delegation)

\* Step 6, the delegation's shares are increased and the record is stored.
UpdateDelegation(s, c) ==
    IF s.res # Running THEN s
    ELSE LET t == [Emit(s, "SetDelegation")
                      EXCEPT !.delegation = @ + s.shares]
         IN IF c.fail = "persist" THEN [t EXCEPT !.res = "ErrPersist"]
            ELSE SetDelegation(t, c, t.delegation)

\* A failed post-hook made good: the delegation record is put back as it
\* was found.
AfterHookRollsBack(s, c) ==
    IF s.res # Running THEN s
    ELSE LET t == Emit(s, "AfterDelegationModified")
         IN IF c.fail = "posthook"
            THEN [t EXCEPT !.res = "ErrPostHook", !.dels = delegations]
            ELSE [t EXCEPT !.res = Ok]

\* Step 7, the after-modification hook.
AfterHook(s, c) ==
    IF s.res # Running THEN s
    ELSE LET t == Emit(s, "AfterDelegationModified")
         IN IF c.fail = "posthook" THEN [t EXCEPT !.res = "ErrPostHook"]
            ELSE [t EXCEPT !.res = Ok]

\* The liquidity moved before the delegation is looked up and its hook
\* called.
DelegateRunTransferFirst(c) ==
    AfterHook(
      UpdateDelegation(
        MintShares(
          LoadOrCreate(
            MoveLiquidity(
              ResolveOperator(
                ExRateGate(Start(c), c), c), c), c), c), c), c)

\* Keeper.Delegate, from the snapshot and inputs of c to the finished run.
DelegateRun(c) ==
    AfterHook(
      UpdateDelegation(
        MintShares(
          MoveLiquidity(
            LoadOrCreate(
              ResolveOperator(
                ExRateGate(Start(c), c), c), c), c), c), c), c)

\* Keeper.Delegate called on the store st (balances, validator records,
\* delegation records) instead of the current one.
StartFrom(st) ==
    [bal |-> st.bal, vals |-> st.vals, dels |-> st.dels,
     delegation |-> NilDec, events |-> <<>>, ledger |-> <<>>,
     res |-> Running, shares |-> NilDec]

DelegateRunFrom(st, c) ==
    AfterHook(
      UpdateDelegation(
        MintShares(
          MoveLiquidity(
            LoadOrCreate(
              ResolveOperator(
                ExRateGate(StartFrom(st), c), c), c), c), c), c), c)

(* ------------------------------ the machine --------------------------- *)

NoCall ==
    [del |-> "d1", val |-> "v1", amt |-> 0, src |-> Unspecified, sub |-> FALSE,
     fail |-> "none", validator |-> [status |-> Unspecified, tokens |-> 0, shares |-> 0]]

\* No call is on record: the caller has taken the last result.
NoLast ==
    [call |-> NoCall, res |-> Idle, shares |-> NilDec,
     events |-> <<>>, ledger |-> <<>>, pre |-> <<>>]

\* A validator record of the store.
Val(status, tokens, shares) ==
    [status |-> status, tokens |-> tokens, shares |-> shares]

\* The stores the machine starts from.  A validator has never been
\* delegated to (no tokens, no shares), has rate one, has rate 3/2 (two
\* shares on three tokens, after rewards), or has lost all its tokens to
\* slashing (shares on no tokens: the invalid exchange rate).  The
\* delegation records hold the validator's shares between them.
InitStores ==
    { [vals |-> [v1 |-> Val(Bonded, 0, 0),
                 v2 |-> Val(Unbonding, 3, 2 * OneDec)],
       dels |-> (<<"d1", "v2">> :> 2 * OneDec)],
      [vals |-> [v1 |-> Val(Bonded, 2, 2 * OneDec),
                 v2 |-> Val(Bonded, 0, 1 * OneDec)],
       dels |-> (<<"d1", "v1">> :> OneDec) @@ (<<"d2", "v1">> :> OneDec)
                @@ (<<"d1", "v2">> :> OneDec)],
      [vals |-> [v1 |-> Val(Unbonded, 3, 2 * OneDec),
                 v2 |-> Val(Unspecified, 0, 0)],
       dels |-> (<<"d1", "v1">> :> OneDec + 5) @@ (<<"d2", "v1">> :> OneDec - 5)],
      [vals |-> [v1 |-> Val(Unbonding, 0, 1 * OneDec),
                 v2 |-> Val(Bonded, 3, 2 * OneDec)],
       dels |-> (<<"d2", "v1">> :> OneDec) @@ (<<"d1", "v2">> :> 2 * OneDec)] }

\* The share balance of a delegation; no record holds no shares.
SharesOf(dels, p) == IF p \in DOMAIN dels THEN dels[p] ELSE 0

\* A validator's exchange rate as <<tokens, shares>>; a validator without
\* shares issues at rate one.
RateOf(validator) ==
    IF validator.shares = 0 THEN <<1, OneDec>>
    ELSE <<validator.tokens, validator.shares>>
SameRate(r1, r2) == r1[1] * r2[2] = r2[1] * r1[2]

\* The record of the successful delegations: per pair the amounts summed,
\* per validator whether every one of them left its exchange rate as it
\* was at the start, and whether all of them were paid from an account.
Recorded(h, c, r) ==
    IF r.res # Ok THEN h
    ELSE [h EXCEPT !.sum[<<c.del, c.val>>] = @ + c.amt,
                   !.direct = @ /\ c.sub,
                   !.held[c.val] = @ /\ SameRate(RateOf(r.vals[c.val]), h.rate[c.val])]

\* The tokens of the validators whose status is among st.
TokensOf(vals, st) ==
    LET tok(v) == IF vals[v].status \in st THEN vals[v].tokens ELSE 0
    IN tok("v1") + tok("v2")
BondedTokens(vals) == TokensOf(vals, {Bonded})
NotBondedTokens(vals) == TokensOf(vals, {Unbonding, Unbonded})

Init ==
    /\ \E st \in InitStores : validators = st.vals /\ delegations = st.dels
    /\ balances = [a \in Accounts |->
          IF a = BondedPoolName THEN BondedTokens(validators) + PoolSlack
          ELSE IF a = NotBondedPoolName THEN NotBondedTokens(validators) + PoolSlack
          ELSE MaxBal]
    /\ last = NoLast
    /\ history = [base |-> [p \in Delegators \X Validators |-> SharesOf(delegations, p)],
                  sum |-> [p \in Delegators \X Validators |-> 0],
                  rate |-> [v \in Validators |-> RateOf(validators[v])],
                  held |-> [v \in Validators |-> TRUE],
                  direct |-> TRUE]

Delegate(d, v, amt, src, sub, fail) ==
    LET c == [del |-> d, val |-> v, amt |-> amt, src |-> src, sub |-> sub,
              fail |-> fail, validator |-> validators[v]]
        r == DelegateRun(c)
    IN /\ last.res = Idle
       /\ validators["v1"].tokens + validators["v2"].tokens + amt <= MaxTokens
       /\ balances' = r.bal
       /\ validators' = r.vals
       /\ delegations' = r.dels
       /\ history' = Recorded(history, c, r)
       /\ last' = [call |-> c, res |-> r.res, shares |-> r.shares,
                   events |-> r.events, ledger |-> r.ledger,
                   pre |-> [bal |-> balances, vals |-> validators,
                            dels |-> delegations]]

\* A delegation paid from the delegator's account.
DelegateFromAccount ==
    \E d \in Delegators, v \in Validators, amt \in 0..MaxAmt,
       src \in BondStatus, fail \in Failures :
        Delegate(d, v, amt, src, TRUE, fail)

\* A delegation of tokens the pools already hold (redelegation and the like).
DelegateFromPools ==
    \E d \in Delegators, v \in Validators, amt \in 0..MaxAmt,
       src \in BondStatus, fail \in Failures :
        Delegate(d, v, amt, src, FALSE, fail)

\* The caller takes the result.  Delegate rolls nothing back itself: what
\* it wrote stays when it returns.  The caller is the transaction engine,
\* which commits the writes of a call that succeeded and discards the
\* writes of a call that returned an error or halted.
TakeResult ==
    /\ last.res # Idle
    /\ last' = NoLast
    /\ UNCHANGED history
    /\ IF last.res = Ok
       THEN UNCHANGED <<balances, validators, delegations>>
       ELSE /\ balances' = last.pre.bal
            /\ validators' = last.pre.vals
            /\ delegations' = last.pre.dels

Next == DelegateFromAccount \/ DelegateFromPools \/ TakeResult

Spec == Init /\ [][Next]_vars

\* The delegations none of whose collaborators returns an error.
DelegateNoFail ==
    \E d \in Delegators, v \in Validators, amt \in 0..MaxAmt,
       src \in BondStatus, sub \in BOOLEAN :
        Delegate(d, v, amt, src, sub, "none")

NextNoFail == DelegateNoFail \/ TakeResult

\* The machine whose collaborators never fail: the calls return an error
\* or halt only for what Delegate itself checks and for lack of funds.
SpecNoFail == Init /\ [][NextNoFail]_vars

(* ------------------------------ properties ---------------------------- *)

TypeOK ==
    /\ balances \in [Accounts -> Nat]
    /\ \A v \in Validators : validators[v].tokens \in Nat /\ validators[v].shares \in Nat
    /\ DOMAIN delegations \subseteq Delegators \X Validators
    /\ \A p \in DOMAIN delegations : delegations[p] \in Nat

\* A call has returned; its pair; how it ended.
Called == last.res # Idle
Pair == <<last.call.del, last.call.val>>
Failed == last.res \notin {Idle, Ok, Panic}
Has(e) == \E i \in DOMAIN last.events : last.events[i] = e
StoreUntouched ==
    /\ balances = last.pre.bal
    /\ validators = last.pre.vals
    /\ delegations = last.pre.dels

\* C1: a call whose validator snapshot has the invalid exchange rate
\* returns ErrDelegatorShareExRateInvalid with zero shares, fires no hook,
\* makes no ledger call and writes nothing: the validator's shares do not
\* grow.
C1_ExRateGate ==
    (Called /\ InvalidExRate(last.call.validator)) =>
        /\ last.res = ErrDelegatorShareExRateInvalid
        /\ last.shares = LegacyZeroDec
        /\ last.events = <<>>
        /\ last.ledger = <<>>
        /\ StoreUntouched
        /\ validators[last.call.val].shares = last.call.validator.shares

\* A funded direct delegation of a positive amount met the gate.
C1_Witness ==
    /\ Called
    /\ InvalidExRate(last.call.validator)
    /\ last.call.sub /\ last.call.amt > 0 /\ last.call.fail = "none"
    /\ last.call.src = Unbonded
    /\ balances[last.call.del] >= last.call.amt
    /\ last.res = ErrDelegatorShareExRateInvalid
\* The place of an event in Delegate's sequence.
Rank(e) ==
    CASE e = "GetDelegation" -> 1
      [] e \in {"BeforeDelegationSharesModified", "BeforeDelegationCreated"} -> 2
      [] e \in {"DelegateCoinsFromAccountToModule", "SendCoinsFromModuleToModule"} -> 3
      [] e = "AddValidatorTokensAndShares" -> 4
      [] e = "SetDelegation" -> 5
      [] e = "AfterDelegationModified" -> 6

\* C2: the events of a call come in the order lookup, pre-hook, ledger
\* transfer (if any), share minting, persistence, AfterDelegationModified,
\* none skipped but the transfer; the pre-hook is BeforeDelegationCreated
\* exactly for a first-time delegator, so it precedes any ledger call; and
\* AfterDelegationModified fires only with the delegation record stored.
C2_EventOrder ==
    Called =>
        LET ev == last.events IN
        /\ \A i \in DOMAIN ev :
              IF i = 1 THEN Rank(ev[i]) = 1
              ELSE \/ Rank(ev[i]) = Rank(ev[i - 1]) + 1
                   \/ Rank(ev[i]) = 4 /\ Rank(ev[i - 1]) = 2
        /\ Len(ev) >= 2 =>
              ev[2] = IF Pair \in DOMAIN last.pre.dels
                      THEN "BeforeDelegationSharesModified"
                      ELSE "BeforeDelegationCreated"
        /\ Len(last.ledger) = Cardinality({i \in DOMAIN ev : Rank(ev[i]) = 3})
        /\ Has("AfterDelegationModified") =>
              /\ Pair \in DOMAIN delegations
              /\ delegations[Pair] = SharesOf(last.pre.dels, Pair) + last.shares
        /\ last.res = Ok => Has("AfterDelegationModified")

\* A first-time delegator's direct delegation ran through all six events.
C2_Witness ==
    /\ Called /\ last.res = Ok
    /\ Pair \notin DOMAIN last.pre.dels
    /\ last.call.amt > 0
    /\ last.events = <<"GetDelegation", "BeforeDelegationCreated",
                       "DelegateCoinsFromAccountToModule",
                       "AddValidatorTokensAndShares", "SetDelegation",
                       "AfterDelegationModified">>
\* The balances after the ledger calls of the call that succeeded.
AfterLedger(bal, ledger) ==
    IF ledger = <<>> \/ ~ledger[1].ok THEN bal
    ELSE Send(bal, ledger[1].from, ledger[1].to, ledger[1].amt)

\* C3 as stated: a call that returns an error leaves the balances of the
\* delegator's account and of both pools as they were before the call.
C3_ErrorLeavesBalances ==
    Failed => balances = last.pre.bal

\* C3 as amended: a call that returns an error before share minting is
\* reached (gate, address codecs, lookup, pre-hook, denomination lookup,
\* the transfer itself) leaves every balance as it was; a call whose error
\* comes from share minting, persistence or AfterDelegationModified
\* returns with the transfer of step 4 made and not undone.
C3_ErrorBalances ==
    Failed =>
        IF Has("AddValidatorTokensAndShares")
        THEN /\ last.res \in {"ErrMint", "ErrPersist", "ErrPostHook"}
             /\ balances = AfterLedger(last.pre.bal, last.ledger)
        ELSE /\ last.res \notin {"ErrMint", "ErrPersist", "ErrPostHook"}
             /\ balances = last.pre.bal

\* Share minting failed after the delegator's coins had reached the pool.
C3_Witness ==
    /\ last.res = "ErrMint"
    /\ last.call.sub /\ last.call.amt > 0
    /\ balances[last.call.del] = last.pre.bal[last.call.del] - last.call.amt
    /\ balances # last.pre.bal
\* Each pool holds at least the tokens of the validators it backs.
Backed(bal, vals) ==
    /\ BondedTokens(vals) <= bal[BondedPoolName]
    /\ NotBondedTokens(vals) <= bal[NotBondedPoolName]

\* C4 as stated: after any sequence of Delegate calls, direct or
\* pool-rebalance, the Bonded validators' tokens do not exceed the bonded
\* pool and the Unbonding/Unbonded validators' tokens do not exceed the
\* not-bonded pool.
C4_PoolsBackTokens == Backed(balances, validators)

\* C4 as amended: the pools back the validators' tokens in every state
\* reached by direct delegations (subtractAccount) alone, and a direct
\* call never lowers a pool's excess over the tokens it backs.
C4_DirectPoolsBackTokens ==
    /\ (history.direct /\ (Called => last.call.sub)) => Backed(balances, validators)
    /\ (Called /\ last.call.sub) =>
          /\ balances[BondedPoolName] - BondedTokens(validators)
                >= last.pre.bal[BondedPoolName] - BondedTokens(last.pre.vals)
          /\ balances[NotBondedPoolName] - NotBondedTokens(validators)
                >= last.pre.bal[NotBondedPoolName] - NotBondedTokens(last.pre.vals)

\* Direct delegations to a Bonded and to an Unbonding or Unbonded
\* validator have both been made, and each pool holds its slack still.
C4_Witness ==
    /\ history.direct /\ last.res = Ok /\ last.call.sub /\ last.call.amt > 0
    /\ BondedTokens(validators) + NotBondedTokens(validators)
         >= BondedTokens(last.pre.vals) + NotBondedTokens(last.pre.vals) + 1
    /\ \E p \in Delegators \X Validators : p # Pair /\ history.sum[p] > 0
    /\ balances[BondedPoolName] = BondedTokens(validators) + PoolSlack
    /\ balances[NotBondedPoolName] = NotBondedTokens(validators) + PoolSlack
\* The shares the delegation records of a validator hold together.
DelegatedShares(dels, v) ==
    SharesOf(dels, <<"d1", v>>) + SharesOf(dels, <<"d2", v>>)

\* C5: the shares of a validator's delegation records never add up to
\* more than the validator's share total, so that their worth at the
\* validator's exchange rate (tokens / shares) never exceeds its tokens.
C5_SharesCovered ==
    \A v \in Validators :
        /\ DelegatedShares(delegations, v) <= validators[v].shares
        /\ DelegatedShares(delegations, v) * validators[v].tokens
             <= validators[v].tokens * validators[v].shares

\* A delegation whose shares were rounded down has been stored, and the
\* records of both delegators make up the validator's whole share total.
C5_Witness ==
    /\ last.res = Ok /\ last.call.amt > 0
    /\ last.shares * last.call.validator.tokens
         < last.call.amt * last.call.validator.shares
    /\ \A d \in Delegators : SharesOf(delegations, <<d, last.call.val>>) > 0
    /\ DelegatedShares(delegations, last.call.val) = validators[last.call.val].shares
\* The pre-hook of the call fired and returned no error.
PassedPreHook == Called /\ Len(last.events) >= 2 /\ last.res # "ErrPreHook"

\* A direct delegation: paid from the account, the token source not Bonded.
Direct == Called /\ last.call.sub /\ last.call.src # Bonded

\* The one ledger call of a direct delegation: bondAmt from the
\* delegator's account to the pool of the validator's status.
DirectCall(l) ==
    /\ l.from = last.call.del
    /\ l.amt = last.call.amt
    /\ last.call.validator.status = Bonded => l.to = BondedPoolName
    /\ last.call.validator.status \in {Unbonding, Unbonded} => l.to = NotBondedPoolName
    /\ l.to \in {BondedPoolName, NotBondedPoolName}

\* C6 as stated: a direct delegation that passes the pre-hook makes
\* exactly one ledger call, the account-to-pool transfer of bondAmt to the
\* pool of the validator's status, and no pool-to-pool transfer.
C6_DirectOneLedgerCall ==
    (Direct /\ PassedPreHook) =>
        /\ Len(last.ledger) = 1
        /\ DirectCall(last.ledger[1])
        /\ Has("DelegateCoinsFromAccountToModule")
        /\ ~Has("SendCoinsFromModuleToModule")

\* C6 as amended: a direct delegation that passes the pre-hook, whose
\* validator status is Bonded, Unbonding or Unbonded and whose bonding
\* denomination lookup succeeds, makes exactly that one ledger call and the
\* balances change by it alone; with any other status (a fatal halt) or a
\* failed denomination lookup it makes no ledger call at all.
C6_DirectLedgerCall ==
    (Direct /\ PassedPreHook) =>
        IF /\ last.call.validator.status \in {Bonded, Unbonding, Unbonded}
           /\ last.res # "ErrBondDenom"
        THEN /\ Len(last.ledger) = 1
             /\ DirectCall(last.ledger[1])
             /\ last.events[3] = "DelegateCoinsFromAccountToModule"
             /\ ~Has("SendCoinsFromModuleToModule")
             /\ balances = AfterLedger(last.pre.bal, last.ledger)
             /\ last.ledger[1].ok <=> last.res \notin {"ErrTransfer", "ErrInsufficientFunds"}
        ELSE /\ last.ledger = <<>>
             /\ balances = last.pre.bal
             /\ last.res \in {Panic, "ErrBondDenom"}

\* A direct delegation to an Unbonding validator moved the coins into the
\* not-bonded pool.
C6_Witness ==
    /\ Direct /\ last.res = Ok /\ last.call.amt > 0
    /\ last.call.validator.status = Unbonding
    /\ balances[NotBondedPoolName] = last.pre.bal[NotBondedPoolName] + last.call.amt
    /\ balances[last.call.del] = last.pre.bal[last.call.del] - last.call.amt
    /\ balances[BondedPoolName] = last.pre.bal[BondedPoolName]
\* A pool-paid call whose tokens already sit in the validator's pool.
InPlace ==
    /\ Called /\ ~last.call.sub
    /\ \/ last.call.src = Bonded /\ last.call.validator.status = Bonded
       \/ last.call.src \in {Unbonded, Unbonding} /\ last.call.validator.status # Bonded

\* C7: without subtractAccount, a Bonded source on a Bonded validator and
\* an Unbonded or Unbonding source on a validator that is not Bonded make
\* no ledger call and leave every balance as it was; the call still goes
\* on to mint the shares and to store the delegation.
C7_InPlaceNoLedger ==
    InPlace =>
        /\ last.ledger = <<>>
        /\ ~Has("SendCoinsFromModuleToModule")
        /\ ~Has("DelegateCoinsFromAccountToModule")
        /\ balances = last.pre.bal
        /\ PassedPreHook => Has("AddValidatorTokensAndShares")
        /\ (PassedPreHook /\ last.res # "ErrMint") =>
              /\ last.shares >= 0
              /\ validators[last.call.val].tokens
                   = last.pre.vals[last.call.val].tokens + last.call.amt
              /\ validators[last.call.val].shares
                   = last.pre.vals[last.call.val].shares + last.shares
              /\ Has("SetDelegation")
        /\ (PassedPreHook /\ last.res \notin {"ErrMint", "ErrPersist"}) =>
              /\ Pair \in DOMAIN delegations
              /\ delegations[Pair] = SharesOf(last.pre.dels, Pair) + last.shares
        /\ (last.call.fail = "none" /\ ~InvalidExRate(last.call.validator)) =>
              last.res = Ok

\* A Bonded source was delegated to a Bonded validator: shares minted and
\* stored, no balance changed.
C7_Witness ==
    /\ InPlace /\ last.res = Ok /\ last.call.amt > 0
    /\ last.call.src = Bonded
    /\ last.shares > 0
    /\ validators[last.call.val].tokens
         = last.pre.vals[last.call.val].tokens + last.call.amt
    /\ delegations[Pair] = SharesOf(last.pre.dels, Pair) + last.shares
    /\ balances = last.pre.bal
\* A pool-paid call whose tokens sit in the other pool: the pool they
\* leave and the pool they go to.
Crossed ==
    /\ Called /\ ~last.call.sub
    /\ \/ last.call.src \in {Unbonded, Unbonding} /\ last.call.validator.status = Bonded
       \/ last.call.src = Bonded /\ last.call.validator.status # Bonded
FromPool == IF last.call.src = Bonded THEN BondedPoolName ELSE NotBondedPoolName
ToPool == IF last.call.src = Bonded THEN NotBondedPoolName ELSE BondedPoolName

\* C8: without subtractAccount, an Unbonded or Unbonding source on a
\* Bonded validator moves exactly bondAmt from the not-bonded pool to the
\* bonded pool, and a Bonded source on a validator that is not Bonded
\* moves exactly bondAmt from the bonded pool to the not-bonded pool: that
\* is the one ledger call made once the pre-hook has passed and the
\* denomination is known, and the call goes on to mint only with the coins
\* moved.  No account balance changes and the pools' sum stays.
C8_PoolToPool ==
    Crossed =>
        /\ \A d \in Delegators : balances[d] = last.pre.bal[d]
        /\ balances[BondedPoolName] + balances[NotBondedPoolName]
             = last.pre.bal[BondedPoolName] + last.pre.bal[NotBondedPoolName]
        /\ ~Has("DelegateCoinsFromAccountToModule")
        /\ IF PassedPreHook /\ last.res # "ErrBondDenom"
           THEN /\ last.events[3] = "SendCoinsFromModuleToModule"
                /\ last.ledger
                     = <<[from |-> FromPool, to |-> ToPool, amt |-> last.call.amt,
                          ok |-> last.res \notin {"ErrTransfer", "ErrInsufficientFunds"}]>>
                /\ last.res = "ErrInsufficientFunds"
                     <=> (last.pre.bal[FromPool] < last.call.amt /\ last.call.fail # "ledger")
           ELSE last.ledger = <<>>
        /\ IF Has("AddValidatorTokensAndShares")
           THEN /\ balances[FromPool] = last.pre.bal[FromPool] - last.call.amt
                /\ balances[ToPool] = last.pre.bal[ToPool] + last.call.amt
           ELSE balances = last.pre.bal

\* A Bonded source was delegated to an Unbonding validator: the coins went
\* from the bonded pool to the not-bonded pool.
C8_Witness ==
    /\ Crossed /\ last.res = Ok /\ last.call.amt > 0
    /\ last.call.src = Bonded /\ last.call.validator.status = Unbonding
    /\ balances[BondedPoolName] = last.pre.bal[BondedPoolName] - last.call.amt
    /\ balances[NotBondedPoolName] = last.pre.bal[NotBondedPoolName] + last.call.amt
\* A zero-amount call on a validator whose exchange rate is valid.
ZeroAmount ==
    Called /\ last.call.amt = 0 /\ ~InvalidExRate(last.call.validator)

\* The arguments Delegate halts on: subtractAccount with a Bonded source
\* or a status that is none of the three; no subtractAccount with a source
\* that is none of the three.
ContractViolation ==
    IF last.call.sub
    THEN \/ last.call.src = Bonded
         \/ last.call.validator.status \notin {Bonded, Unbonding, Unbonded}
    ELSE last.call.src \notin {Bonded, Unbonding, Unbonded}

\* C9 as stated: a zero-amount call on a valid validator always succeeds
\* with zero new shares and leaves the validator's totals unchanged,
\* whatever the token source, subtractAccount and the hooks' outcomes.
C9_ZeroAlwaysSucceeds ==
    ZeroAmount =>
        /\ last.res = Ok
        /\ last.shares = LegacyZeroDec
        /\ validators[last.call.val] = last.pre.vals[last.call.val]

\* C9 as amended: a zero-amount call on a valid validator leaves the
\* validators' totals unchanged in every case and returns no shares but
\* zero; it succeeds, with zero new shares, whenever no collaborator
\* returns an error and the arguments are no contract violation (the
\* ledger takes a zero amount at any balance); on a contract violation it
\* halts, and a collaborator's error is returned.
C9_ZeroAmount ==
    ZeroAmount =>
        /\ validators = last.pre.vals
        /\ balances = last.pre.bal
        /\ last.shares \in {LegacyZeroDec, NilDec}
        /\ last.res = Ok => last.shares = LegacyZeroDec
        /\ last.res \notin {ErrDelegatorShareExRateInvalid, "ErrInsufficientFunds"}
        /\ last.call.fail = "none" =>
              last.res = IF ContractViolation THEN Panic ELSE Ok
        /\ last.res = Ok => ~ContractViolation

\* A delegator whose account is empty delegated nothing to a validator
\* never delegated to before: the call succeeded and stored a record of
\* zero shares.
C9_Witness ==
    /\ ZeroAmount /\ last.res = Ok /\ last.call.sub
    /\ balances[last.call.del] = 0
    /\ last.call.validator.shares = 0
    /\ Pair \notin DOMAIN last.pre.dels
    /\ delegations[Pair] = 0
    /\ last.shares = LegacyZeroDec
\* C10: while a validator's exchange rate stays what it was at the start,
\* the successful delegations of amounts a1..aN by one delegator to it
\* leave the delegation with its starting shares plus (a1+...+aN)/rate
\* (rate = tokens per share, so shares * tokens = amount * shares of the
\* rate); each successful call adds its new shares to the balance found.
C10_SharesAddUp ==
    /\ last.res \in {Idle, Ok} =>
          \A p \in Delegators \X Validators :
              history.held[p[2]] =>
                  (SharesOf(delegations, p) - history.base[p]) * history.rate[p[2]][1]
                    = history.sum[p] * history.rate[p[2]][2]
    /\ last.res = Ok =>
          delegations[Pair] = SharesOf(last.pre.dels, Pair) + last.shares

\* A delegator who held shares at the start has delegated more than one
\* call can carry, to a validator whose rate has stayed the same.
C10_Witness ==
    /\ last.res = Ok /\ last.call.amt > 0
    /\ history.held[last.call.val]
    /\ history.base[Pair] > 0
    /\ history.sum[Pair] = MaxAmt + 1
    /\ delegations[Pair] > history.base[Pair] + last.shares
\* The pre-hook of the call: BeforeDelegationSharesModified for a record
\* the store holds, BeforeDelegationCreated for a new one.
PreHook ==
    IF Pair \in DOMAIN last.pre.dels THEN "BeforeDelegationSharesModified"
    ELSE "BeforeDelegationCreated"

\* The call comes to its pre-hook: the gate, the address codecs and the
\* lookup let it through.
ReachesPreHook ==
    /\ Called /\ ~InvalidExRate(last.call.validator)
    /\ last.call.fail \notin {"decode", "lookup"}
    /\ last.call.fail = "encode" => Pair \in DOMAIN last.pre.dels

\* C11: when the pre-hook of a call returns an error, Delegate returns that
\* error with zero shares and has changed nothing: no ledger call, no share
\* minting, no delegation record written (the new zero-share record is not
\* stored) and no AfterDelegationModified.
C11_PreHookError ==
    /\ (ReachesPreHook /\ last.call.fail = "prehook") => last.res = "ErrPreHook"
    /\ last.res = "ErrPreHook" =>
          /\ last.call.fail = "prehook"
          /\ last.shares = LegacyZeroDec
          /\ last.events = <<"GetDelegation", PreHook>>
          /\ last.ledger = <<>>
          /\ StoreUntouched
          /\ DOMAIN delegations = DOMAIN last.pre.dels

\* BeforeDelegationCreated failed for a first-time delegator with the funds
\* to delegate: the store holds no record of the pair.
C11_Witness ==
    /\ last.res = "ErrPreHook"
    /\ last.call.sub /\ last.call.amt > 0 /\ last.call.src = Unbonded
    /\ balances[last.call.del] >= last.call.amt
    /\ last.events[2] = "BeforeDelegationCreated"
    /\ Pair \notin DOMAIN delegations
\* The call comes to step 4: its pre-hook is reached and returns no error.
ReachesTransfer == ReachesPreHook /\ last.call.fail # "prehook"

\* The transfer of step 4 failed: the ledger refused the call made, or the
\* bonding denomination was not found on the way to a call.
TransferFailed ==
    \/ last.ledger # <<>> /\ ~last.ledger[Len(last.ledger)].ok
    \/ /\ ReachesTransfer /\ last.call.fail = "denom"
       /\ ~ContractViolation /\ ~InPlace

\* C12: when the transfer of step 4 fails (account to pool or pool to
\* pool, the denomination lookup included), Delegate returns the error
\* before share minting: the validators' tokens and shares are as they
\* were, no delegation record is written, no balance has changed and
\* AfterDelegationModified does not fire.
C12_TransferError ==
    /\ TransferFailed =>
          /\ last.res \in {"ErrBondDenom", "ErrTransfer", "ErrInsufficientFunds"}
          /\ last.shares = NilDec
          /\ ~Has("AddValidatorTokensAndShares")
          /\ ~Has("SetDelegation")
          /\ ~Has("AfterDelegationModified")
          /\ StoreUntouched
    /\ last.res \in {"ErrBondDenom", "ErrTransfer", "ErrInsufficientFunds"} =>
          TransferFailed
    /\ last.res = "ErrBondDenom" => last.ledger = <<>>

\* The not-bonded pool could not pay what an Unbonded source was to bring
\* to a Bonded validator.
C12_Witness ==
    /\ last.res = "ErrInsufficientFunds"
    /\ ~last.call.sub /\ last.call.src = Unbonded
    /\ last.call.validator.status = Bonded
    /\ last.call.amt > balances[NotBondedPoolName]
    /\ last.call.validator.shares > 0
    /\ validators = last.pre.vals
\* The arguments a call with subtractAccount halts on.
DirectViolation ==
    \/ last.call.src = Bonded
    \/ last.call.validator.status \notin {Bonded, Unbonding, Unbonded}

\* C13 as stated: with subtractAccount, Delegate halts exactly when the
\* token source is Bonded or the validator's status is none of Bonded,
\* Unbonding, Unbonded.
C13_DirectHaltsExactlyWhen ==
    (Called /\ last.call.sub) => (last.res = Panic <=> DirectViolation)

\* C13 as amended: with subtractAccount, Delegate halts exactly when the
\* call comes to step 4 (the gate, the address codecs and the lookup let
\* it through and the pre-hook returns no error) and the token source is
\* Bonded or the status is none of the three; the halt comes after the
\* pre-hook has fired and before any ledger call, minting or write.  A
\* call stopped before step 4 returns that step's error whatever its token
\* source and status.
C13_DirectHalt ==
    (Called /\ last.call.sub) =>
        /\ last.res = Panic <=> (ReachesTransfer /\ DirectViolation)
        /\ last.res = Panic =>
              /\ last.events = <<"GetDelegation", PreHook>>
              /\ last.ledger = <<>>
              /\ last.shares = NilDec
              /\ StoreUntouched
        /\ (DirectViolation /\ ~ReachesTransfer) =>
              /\ Failed
              /\ last.res \in {ErrDelegatorShareExRateInvalid, "ErrAddressDecode",
                               "ErrLookup", "ErrAddressEncode", "ErrPreHook"}

\* A delegation from the account with an Unbonded source halted on a
\* validator whose status is none of the three, after
\* BeforeDelegationCreated had fired.
C13_Witness ==
    /\ last.res = Panic /\ last.call.sub
    /\ last.call.src = Unbonded /\ last.call.validator.status = Unspecified
    /\ last.call.amt > 0 /\ balances[last.call.del] >= last.call.amt
    /\ last.events = <<"GetDelegation", "BeforeDelegationCreated">>

\* C14: when share minting fails, Delegate returns the error having
\* written no delegation record and fired no post-hook, and the transfer
\* made in step 4 of the call stays: the balances are those the transfer
\* left, Delegate makes no second ledger call to undo it.
C14_MintError ==
    /\ (ReachesTransfer /\ last.call.fail = "mint" /\ ~ContractViolation) =>
          last.res \in {"ErrMint", "ErrInsufficientFunds"}
    /\ last.res = "ErrMint" =>
          /\ last.events[Len(last.events)] = "AddValidatorTokensAndShares"
          /\ ~Has("SetDelegation")
          /\ ~Has("AfterDelegationModified")
          /\ delegations = last.pre.dels
          /\ Len(last.ledger) <= 1
          /\ \A i \in DOMAIN last.ledger : last.ledger[i].ok /\ last.ledger[i].amt = last.call.amt
          /\ balances = AfterLedger(last.pre.bal, last.ledger)
          /\ (~InPlace /\ last.call.amt > 0) => balances # last.pre.bal

\* Minting failed after the bonded pool had paid the not-bonded pool what
\* a Bonded source brought to a validator that is not Bonded.
C14_Witness ==
    /\ last.res = "ErrMint"
    /\ ~last.call.sub /\ last.call.src = Bonded /\ last.call.amt > 0
    /\ balances[NotBondedPoolName] = last.pre.bal[NotBondedPoolName] + last.call.amt
    /\ balances[BondedPoolName] = last.pre.bal[BondedPoolName] - last.call.amt
    /\ delegations = last.pre.dels
\* C15: when AfterDelegationModified returns an error, Delegate returns
\* that error with steps 4 to 6 done: the transfer, if the call has one,
\* is made, the validator's tokens and shares include what was minted, the
\* delegation record is stored with the increased share balance, and the
\* shares returned are those newly minted.
C15_PostHookError ==
    /\ (ReachesTransfer /\ last.call.fail = "posthook" /\ ~ContractViolation) =>
          last.res \in {"ErrPostHook", "ErrInsufficientFunds"}
    /\ last.res = "ErrPostHook" =>
          /\ last.call.fail = "posthook"
          /\ last.events[Len(last.events)] = "AfterDelegationModified"
          /\ Has("AddValidatorTokensAndShares") /\ Has("SetDelegation")
          /\ InPlace <=> last.ledger = <<>>
          /\ \A i \in DOMAIN last.ledger : last.ledger[i].ok /\ last.ledger[i].amt = last.call.amt
          /\ balances = AfterLedger(last.pre.bal, last.ledger)
          /\ last.shares = IssuedShares(last.pre.vals[last.call.val], last.call.amt)
          /\ validators[last.call.val].tokens
               = last.pre.vals[last.call.val].tokens + last.call.amt
          /\ validators[last.call.val].shares
               = last.pre.vals[last.call.val].shares + last.shares
          /\ Pair \in DOMAIN delegations
          /\ delegations[Pair] = SharesOf(last.pre.dels, Pair) + last.shares
          /\ \A p \in DOMAIN last.pre.dels : p # Pair => delegations[p] = last.pre.dels[p]

\* The post-hook failed after a delegator who held shares had paid from the
\* account and been given more.
C15_Witness ==
    /\ last.res = "ErrPostHook"
    /\ last.call.sub /\ last.call.amt > 0 /\ last.shares > 0
    /\ Pair \in DOMAIN last.pre.dels
    /\ delegations[Pair] > last.pre.dels[Pair]
    /\ balances[last.call.del] = last.pre.bal[last.call.del] - last.call.amt
    /\ validators[last.call.val].shares > last.pre.vals[last.call.val].shares
\* The call a made on the store st: its validator snapshot is the record
\* st holds.
CallAt(st, a) == [a EXCEPT !.validator = st.vals[a.val]]

\* The store a run leaves with the caller: what it wrote if it succeeded,
\* the store it started from if not.
Committed(st, r) ==
    IF r.res = Ok THEN [bal |-> r.bal, vals |-> r.vals, dels |-> r.dels] ELSE st

\* The pairs in a fixed order, so that two calls are compared once.
PairNo(p) ==
    (IF p[1] = "d1" THEN 0 ELSE 2) + (IF p[2] = "v1" THEN 0 ELSE 1)

\* The calls of another pair than the last call's (a later one in the
\* order of the pairs), none of whose collaborators fails.
OtherCalls ==
    { [del |-> p[1], val |-> p[2], amt |-> amt, src |-> src, sub |-> sub,
       fail |-> "none", validator |-> last.pre.vals[p[2]]] :
         p \in { q \in Delegators \X Validators : PairNo(q) > PairNo(Pair) },
         amt \in 0..MaxAmt, src \in BondStatus, sub \in BOOLEAN }

\* The last call (a) and the call b made in both orders from the store the
\* last call started from: a then b, and b then a.
TwoOrders(b) ==
    LET pre == last.pre
        a1 == [res |-> last.res, shares |-> last.shares]
        afterA == IF last.res = Ok
                  THEN [bal |-> balances, vals |-> validators, dels |-> delegations]
                  ELSE pre
        b2 == DelegateRunFrom(afterA, CallAt(afterA, b))
        b1 == DelegateRunFrom(pre, CallAt(pre, b))
        afterB == Committed(pre, b1)
        a2 == DelegateRunFrom(afterB, CallAt(afterB, last.call))
    IN [a1 |-> a1, a2 |-> [res |-> a2.res, shares |-> a2.shares],
        b1 |-> [res |-> b1.res, shares |-> b1.shares],
        b2 |-> [res |-> b2.res, shares |-> b2.shares],
        a |-> afterA, b |-> afterB,
        ab |-> Committed(afterA, b2), ba |-> Committed(afterB, a2)]

\* Both orders return the same results and end in the same store, but for
\* the record of a validator both calls name.
SameOutcome(o, b) ==
    /\ o.a1 = o.a2
    /\ o.b1 = o.b2
    /\ o.ab.bal = o.ba.bal
    /\ o.ab.dels = o.ba.dels
    /\ \A v \in Validators :
          (v # last.call.val \/ v # b.val) => o.ab.vals[v] = o.ba.vals[v]
SameEitherOrder(b) == SameOutcome(TwoOrders(b), b)

\* C16 as stated: two calls to different validators, or by different
\* delegators, return the same results and reach the same final state in
\* either order, apart from the totals of a validator both name.
C16_OrderIndependent ==
    Called => \A b \in OtherCalls : SameEitherOrder(b)

\* No call of the two is refused by the ledger for lack of funds, in
\* either order.
Funded(o) ==
    \A r \in {o.a1, o.a2, o.b1, o.b2} : r.res # "ErrInsufficientFunds"

\* The two calls name one validator, and whichever succeeds first leaves
\* its exchange rate changed (the share division truncated).
RateMoved(b, o) ==
    /\ b.val = last.call.val
    /\ \E st \in {o.a, o.b} :
          ~SameRate(RateOf(st.vals[b.val]), RateOf(last.pre.vals[b.val]))

\* C16 as amended: two calls to different validators, or by different
\* delegators, neither of which is refused for lack of funds in either
\* order, return the same success or error and leave the same balances in
\* either order; they return the same new shares and leave the same
\* delegation records and the same totals of every validator they do not
\* both name, unless both name one validator and its exchange rate moves
\* with the first of them.
C16_OrderIndependentFunded ==
    Called =>
        \A b \in OtherCalls :
            LET o == TwoOrders(b) IN
            Funded(o) =>
                /\ o.a1.res = o.a2.res
                /\ o.b1.res = o.b2.res
                /\ o.ab.bal = o.ba.bal
                /\ DOMAIN o.ab.dels = DOMAIN o.ba.dels
                /\ \A v \in Validators :
                      /\ o.ab.vals[v].tokens = o.ba.vals[v].tokens
                      /\ o.ab.vals[v].status = o.ba.vals[v].status
                /\ ~RateMoved(b, o) => SameOutcome(o, b)

\* Two delegators paid from their accounts for delegations to different
\* validators, each of which succeeds whichever comes first: the same
\* shares are returned and the same store is left in either order.
C16_Witness ==
    /\ last.res = Ok /\ last.call.sub /\ last.call.amt > 0
    /\ \E b \in OtherCalls :
          LET o == TwoOrders(b) IN
          /\ b.val # last.call.val /\ b.del # last.call.del
          /\ b.sub /\ b.amt > 0
          /\ o.a2.res = Ok /\ o.b1.res = Ok /\ o.b2.res = Ok
          /\ o.b1.shares > 0
          /\ SameOutcome(o, b)
          /\ o.ab.dels[<<b.del, b.val>>] > SharesOf(last.pre.dels, <<b.del, b.val>>)
          /\ o.ab.dels[Pair] = delegations[Pair]

\* The call passes the exchange-rate gate and the decoding of the
\* operator address.
PassesDecode ==
    Called /\ ~InvalidExRate(last.call.validator) /\ last.call.fail # "decode"

\* How often the event e is among the events of the call.
Times(e) == Cardinality({i \in DOMAIN last.events : last.events[i] = e})

\* The outcomes of the load-or-create step: the record is there and only
\* BeforeDelegationSharesModified fires; there is none and only
\* BeforeDelegationCreated fires, on a record of zero shares; the lookup
\* fails and its error is returned, no hook fired and nothing changed.
ExistingPath ==
    /\ Pair \in DOMAIN last.pre.dels
    /\ Times("BeforeDelegationSharesModified") = 1
    /\ Times("BeforeDelegationCreated") = 0
    /\ last.res \in {Ok, "ErrPostHook"} =>
          delegations[Pair] = last.pre.dels[Pair] + last.shares
CreatePath ==
    /\ Pair \notin DOMAIN last.pre.dels
    /\ Times("BeforeDelegationCreated") = 1
    /\ Times("BeforeDelegationSharesModified") = 0
    /\ last.res \in {Ok, "ErrPostHook"} => delegations[Pair] = last.shares
LookupErrorPath ==
    /\ last.res = "ErrLookup"
    /\ last.events = <<"GetDelegation">>
    /\ last.ledger = <<>>
    /\ StoreUntouched
\* The fourth outcome: there is no record and the delegator's address
\* cannot be encoded; the error is returned, no hook fired, nothing changed.
EncodeErrorPath ==
    /\ Pair \notin DOMAIN last.pre.dels
    /\ last.res = "ErrAddressEncode"
    /\ last.shares = NilDec
    /\ last.events = <<"GetDelegation">>
    /\ last.ledger = <<>>
    /\ StoreUntouched

\* Exactly one of the conditions holds.
ExactlyOne(conds) ==
    Cardinality({i \in DOMAIN conds : conds[i]}) = 1

\* C17 as stated: a call that passes the gate and the address decoding
\* takes exactly one of three ways at the load-or-create step, and the two
\* pre-hooks never both fire.
C17_ThreeWays ==
    PassesDecode =>
        /\ ExactlyOne(<<ExistingPath, CreatePath, LookupErrorPath>>)
        /\ ~(Has("BeforeDelegationSharesModified") /\ Has("BeforeDelegationCreated"))

\* C17 as amended: such a call takes exactly one of four ways: the three
\* of the claim, or, with no record found, the delegator's address fails
\* to encode and that error is returned with no hook fired and nothing
\* changed.  Which way is decided by the lookup and the codec alone, and
\* the two pre-hooks never both fire.
C17_FourWays ==
    PassesDecode =>
        /\ ExactlyOne(<<ExistingPath, CreatePath, LookupErrorPath, EncodeErrorPath>>)
        /\ ~(Has("BeforeDelegationSharesModified") /\ Has("BeforeDelegationCreated"))
        /\ last.call.fail = "lookup" <=> LookupErrorPath
        /\ (last.call.fail = "encode" /\ Pair \notin DOMAIN last.pre.dels)
              <=> EncodeErrorPath
        /\ (last.call.fail # "lookup" /\ Pair \in DOMAIN last.pre.dels)
              <=> ExistingPath

\* A first-time delegator's call fired BeforeDelegationCreated alone and
\* stored a record holding just the new shares.
C17_Witness ==
    /\ PassesDecode /\ CreatePath
    /\ last.res = Ok /\ last.call.amt > 0
    /\ last.events[2] = "BeforeDelegationCreated"
    /\ delegations[Pair] = last.shares /\ last.shares > 0
    /\ DOMAIN last.pre.dels # {}

\* The token source is one of the three a pool-paid call may name.
KnownSource == last.call.src \in {Bonded, Unbonding, Unbonded}

\* The branch a pool-paid call is seen to take at step 4: no ledger call
\* and no denomination lookup (1, 2); the not-bonded pool asked to pay the
\* bonded pool (3) or the bonded pool the not-bonded pool (4), or the
\* denomination looked up in vain on the way to it.
TookNoTransfer == last.ledger = <<>> /\ last.res # "ErrBondDenom"
TookTransfer(from, to) ==
    \/ /\ Len(last.ledger) = 1
       /\ last.ledger[1].from = from /\ last.ledger[1].to = to
       /\ last.ledger[1].amt = last.call.amt
    \/ last.ledger = <<>> /\ last.res = "ErrBondDenom"

\* C18 as stated: without subtractAccount, Delegate halts exactly when the
\* token source is none of Bonded, Unbonding, Unbonded.
C18_PoolHaltsExactlyWhen ==
    (Called /\ ~last.call.sub) => (last.res = Panic <=> ~KnownSource)

\* C18 as amended: without subtractAccount, a call that comes to step 4
\* (the gate, the address codecs and the lookup let it through and the
\* pre-hook returns no error) takes exactly one of the four branches for
\* every token source among the three and every validator status, the one
\* its source and status name, and does not halt; it halts exactly when it
\* comes to step 4 with a token source that is none of the three, and then
\* makes no ledger call, mints nothing and writes nothing.  A call stopped
\* before step 4 returns that step's error whatever its token source.
C18_PoolHalt ==
    (Called /\ ~last.call.sub) =>
        /\ last.res = Panic <=> (ReachesTransfer /\ ~KnownSource)
        /\ last.res = Panic =>
              /\ last.events = <<"GetDelegation", PreHook>>
              /\ last.ledger = <<>>
              /\ last.shares = NilDec
              /\ StoreUntouched
        /\ (ReachesTransfer /\ KnownSource) =>
              /\ ExactlyOne(<<last.call.src = Bonded /\ IsBonded(last.call.validator),
                              last.call.src # Bonded /\ ~IsBonded(last.call.validator),
                              last.call.src # Bonded /\ IsBonded(last.call.validator),
                              last.call.src = Bonded /\ ~IsBonded(last.call.validator)>>)
              /\ (last.call.src = Bonded /\ IsBonded(last.call.validator))
                    => TookNoTransfer
              /\ (last.call.src # Bonded /\ ~IsBonded(last.call.validator))
                    => TookNoTransfer
              /\ (last.call.src # Bonded /\ IsBonded(last.call.validator))
                    => ~TookNoTransfer /\ TookTransfer(NotBondedPoolName, BondedPoolName)
              /\ (last.call.src = Bonded /\ ~IsBonded(last.call.validator))
                    => ~TookNoTransfer /\ TookTransfer(BondedPoolName, NotBondedPoolName)
        /\ (~KnownSource /\ ~ReachesTransfer) =>
              last.res \in {ErrDelegatorShareExRateInvalid, "ErrAddressDecode",
                            "ErrLookup", "ErrAddressEncode", "ErrPreHook"}

\* A pool-paid call with a token source that is none of the three halted
\* on a Bonded validator that holds tokens, after its pre-hook had fired.
C18_Witness ==
    /\ last.res = Panic /\ ~last.call.sub
    /\ last.call.src = Unspecified /\ last.call.amt > 0
    /\ last.call.validator.status = Bonded /\ last.call.validator.tokens > 0
    /\ Len(last.events) = 2
    /\ validators = last.pre.vals /\ delegations = last.pre.dels

\* C19: a call writes at most one delegation record, that of the pair it
\* was called with; the record of every other pair is as it was, no record
\* is deleted, and over any sequence of calls no record's share balance is
\* negative or less than it was.
C19_OneRecordWritten ==
    /\ \A p \in Delegators \X Validators :
          /\ SharesOf(delegations, p) >= 0
          /\ SharesOf(delegations, p) >= history.base[p]
          /\ history.base[p] > 0 => p \in DOMAIN delegations
    /\ Called =>
          /\ Times("SetDelegation") <= 1
          /\ delegations # last.pre.dels => Has("SetDelegation")
          /\ DOMAIN last.pre.dels \subseteq DOMAIN delegations
          /\ DOMAIN delegations \subseteq DOMAIN last.pre.dels \cup {Pair}
          /\ \A p \in DOMAIN last.pre.dels :
                /\ p # Pair => delegations[p] = last.pre.dels[p]
                /\ delegations[p] >= last.pre.dels[p]

\* A delegator added to the shares held with a validator of which the
\* other delegator holds shares too: that record is as it was.
C19_Witness ==
    /\ last.res = Ok /\ last.call.amt > 0
    /\ Pair \in DOMAIN last.pre.dels
    /\ delegations[Pair] > last.pre.dels[Pair]
    /\ \E p \in DOMAIN last.pre.dels :
          /\ p # Pair /\ p[2] = last.call.val
          /\ last.pre.dels[p] > 0
          /\ delegations[p] = last.pre.dels[p]

\* The coins of all accounts and both pools together.
TotalCoins(bal) ==
    bal["d1"] + bal["d2"] + bal[BondedPoolName] + bal[NotBondedPoolName]

\* The machine started from the store st.
StartedFrom(st) ==
    /\ history.base = [p \in Delegators \X Validators |-> SharesOf(st.dels, p)]
    /\ history.rate = [v \in Validators |-> RateOf(st.vals[v])]

\* C20: over any sequence of calls, successful, failed or halted, the
\* balances of the delegators' accounts and of the two pools add up to
\* what they did at the start; a call makes at most one ledger transfer,
\* of exactly bondAmt, and changes the balances by nothing else.
C20_CoinsConserved ==
    /\ \E st \in InitStores : StartedFrom(st)
    /\ \A st \in InitStores :
          StartedFrom(st) =>
              TotalCoins(balances)
                = 2 * MaxBal + 2 * PoolSlack
                    + BondedTokens(st.vals) + NotBondedTokens(st.vals)
    /\ Called =>
          /\ TotalCoins(balances) = TotalCoins(last.pre.bal)
          /\ Len(last.ledger) <= 1
          /\ Times("DelegateCoinsFromAccountToModule")
               + Times("SendCoinsFromModuleToModule") = Len(last.ledger)
          /\ \A i \in DOMAIN last.ledger :
                /\ last.ledger[i].amt = last.call.amt
                /\ last.ledger[i].from # last.ledger[i].to
          /\ balances = AfterLedger(last.pre.bal, last.ledger)

\* After delegations paid from the pools, a delegation paid from an
\* account moved its coins into a pool: the coins still add up.
C20_Witness ==
    /\ last.res = Ok /\ last.call.sub /\ last.call.amt > 0
    /\ ~history.direct
    /\ Len(last.ledger) = 1 /\ last.ledger[1].ok
    /\ balances[last.call.del] < MaxBal
    /\ balances # last.pre.bal
    /\ TotalCoins(balances) = TotalCoins(last.pre.bal)
====
